---- MODULE Spec2Model ----
(***************************************************************************)
(* pyParamETL, src/main.py: p_move_data_for_table copies the rows of one   *)
(* table from a source PostgreSQL database into the same-named table of a  *)
(* target database: a full load when the target is empty, otherwise a      *)
(* delta load of the rows whose updated_date is above the target's         *)
(* MAX(updated_date), in batches of fetchmany(size) rows, one commit per   *)
(* batch.  The two databases are the environment: their catalogs and       *)
(* tables are chosen in Init, every call on them may fail.                 *)
(*                                                                         *)
(* A column value is NULL (the empty tuple) or <<n>> for a number n; all   *)
(* columns of the modelled tables have mutually assignable types, so the   *)
(* engine stores whatever value a statement hands to a column.             *)
(***************************************************************************)
EXTENDS Integers, Sequences, FiniteSets, TLC

\* fetchmany(size=...) of main.py:156, scaled down from 1000
BatchSize == 2
\* the largest updated_date held by a table at the start
MaxDate == 2
\* the number of consecutive runs of p_move_data_for_table
MaxRuns == 2
\* the longest source table: two full batches and a partial one
MaxRows == 2 * BatchSize + 1

NULL == <<>>
NoError == "NoError"
NoPredicate == "NoPredicate"

ColId == "created_date"
ColDate == "updated_date"
ColExtra == "note"

Range(s) == {s[i] : i \in 1..Len(s)}

IndexOf(s, x) == CHOOSE i \in 1..Len(s) : s[i] = x

Take(s, n) == SubSeq(s, 1, IF n < Len(s) THEN n ELSE Len(s))

\* a cursor that skips a row after every batch
DropOneMore(s, n) == SubSeq(s, (IF n < Len(s) THEN n + 1 ELSE Len(s)) + 1, Len(s))

Drop(s, n) == SubSeq(s, (IF n < Len(s) THEN n ELSE Len(s)) + 1, Len(s))

RECURSIVE SumSeq(_)
SumSeq(s) == IF s = <<>> THEN 0 ELSE s[1] + SumSeq(Tail(s))

(***************************************************************************)
(* The environment: catalogs (information_schema.columns) and tables.      *)
(***************************************************************************)
\* the rows of information_schema.columns for the table, (column_name, data_type)
CatalogAB == <<<<ColId, "timestamp">>, <<ColDate, "timestamp">>>>

CatalogBA == <<<<ColDate, "timestamp">>, <<ColId, "timestamp">>>>

CatalogABX == <<<<ColId, "timestamp">>, <<ColDate, "timestamp">>, <<ColExtra, "text">>>>

\* <<>>: the table is not in the catalog
Catalogs == {<<>>, CatalogAB, CatalogBA, CatalogABX}

\* [column[0] for column in definition], main.py:125 and :130
ColumnNames(definition) == [i \in 1..Len(definition) |-> definition[i][1]]

\* updated_date of the i-th source row under pattern p
PatternDate(p, i) ==
    CASE p = 0 -> NULL
      [] p = 1 -> <<1>>
      [] p = 2 -> <<MaxDate>>
      [] p = 3 -> <<1 + (i % MaxDate)>>
      [] OTHER -> IF i % 2 = 1 THEN NULL ELSE <<1 + ((i \div 2) % MaxDate)>>

DatePatterns == 0..4

\* a row of a table with the given catalog: created_date is the row's identity
MkRow(catalog, id, date) ==
    [c \in Range(ColumnNames(catalog)) |->
        IF c = ColId THEN <<id>> ELSE IF c = ColDate THEN date ELSE NULL]

SourceTables(catalog) ==
    IF catalog = <<>> THEN {<<>>}
    ELSE {[i \in 1..n |-> MkRow(catalog, i, PatternDate(p, i))] :
            n \in 0..MaxRows, p \in DatePatterns}

TargetTables(catalog) ==
    IF catalog = <<>> THEN {<<>>}
    ELSE {<<>>} \cup {<<MkRow(catalog, 0, d)>> : d \in {NULL, <<1>>, <<MaxDate>>}}

(***************************************************************************)
(* What the engine does with the statements main.py sends.                 *)
(***************************************************************************)
TableColumns(catalog) == Range(ColumnNames(catalog))

\* SELECT COUNT(*) FROM t, main.py:138
CountRows(table) == Len(table)

\* SELECT MAX(updated_date) FROM t, main.py:147: NULL when no row has a date
MaxUpdatedDate(table) ==
    LET dates == {table[i][ColDate][1] : i \in {j \in 1..Len(table) : table[j][ColDate] # NULL}}
    IN  IF dates = {} THEN NULL ELSE <<CHOOSE d \in dates : \A e \in dates : e <= d>>

\* the values a date column can hold in the model
DateDomain == 0..(MaxRows + MaxDate)

\* f"...'{l_max_update_date}'", main.py:152: str() of the value, "None" for None
FormatWatermark(w) == IF w = NULL THEN "None" ELSE ToString(w[1])

\* the engine's cast of a quoted literal to the type of updated_date
LiteralIsDate(lit) == \E d \in DateDomain : ToString(d) = lit

ParseDate(lit) == CHOOSE d \in DateDomain : ToString(d) = lit

\* the statement of main.py:143 (no predicate) or main.py:150 (predicate) is rejected
SelectFails(catalog, columns, predicate) ==
    \/ catalog = <<>>
    \/ ~(Range(columns) \subseteq TableColumns(catalog))
    \/ /\ predicate # NoPredicate
       /\ \/ ColDate \notin TableColumns(catalog)
          \/ ~LiteralIsDate(predicate)

\* WHERE updated_date > 'lit': a NULL updated_date never matches
Matches(row, predicate) ==
    \/ predicate = NoPredicate
    \/ /\ row[ColDate] # NULL
       /\ row[ColDate][1] > ParseDate(predicate)

\* the result of the SELECT: one tuple per matching row, in the order of columns
SelectRows(table, columns, predicate) ==
    LET Hit(r) == Matches(r, predicate)
        hits == SelectSeq(table, Hit)
    IN  [i \in 1..Len(hits) |-> [k \in 1..Len(columns) |-> hits[i][columns[k]]]]

\* fetchmany returning one row more than asked for
fetchmany_one_more(stream, size) == Take(stream, size + 1)

\* cursor.fetchmany(size), main.py:156
fetchmany(stream, size) == Take(stream, size)

\* the INSERT of main.py:133 is rejected for this parameter tuple
InsertFails(catalog, template, tuple) ==
    \/ catalog = <<>>
    \/ template.columns = <<>>
    \/ Len(tuple) # template.placeholders
    \/ ~(Range(template.columns) \subseteq TableColumns(catalog))

\* the row the INSERT stores: the k-th parameter goes to the k-th named column
StoredRow(catalog, template, tuple) ==
    [c \in TableColumns(catalog) |->
        IF c \in Range(template.columns)
        THEN tuple[IndexOf(template.columns, c)] ELSE NULL]

StoredRows(catalog, template, tuples) ==
    [i \in 1..Len(tuples) |-> StoredRow(catalog, template, tuples[i])]

(***************************************************************************)
(* The state of one run of p_move_data_for_table and of the two databases. *)
(***************************************************************************)
VARIABLES
    srcCatalog, tgtCatalog,     \* information_schema.columns of either database
    srcTable,                   \* the rows of the source table
    tgtTable,                   \* the committed rows of the target table
    tgtTxn,                     \* rows inserted on the target connection, not committed
    tgtAtStart,                 \* tgtTable when the run started
    tgtInitial,                 \* tgtTable before the first run
    run,                        \* the number of the run
    pc,                         \* the statement the run is at
    l_connection_source, l_connection_target,
    l_source_columns, l_target_columns,
    insert_query_template,
    l_target_row_count, l_max_update_date,
    srcQuery,                   \* the SELECT sent to the source
    srcResult,                  \* the rows of its result not fetched yet
    rows,                       \* the batch fetched last
    error,                      \* the exception in flight, the one the caller gets
    raised,                     \* the exception raised first in the run
    commits,                    \* the sizes of the batches committed in the run
    fetched,                    \* the number of rows fetchmany returned in the run
    executed,                   \* the number of executemany calls of the run
    returned,                   \* the value the run returned to its caller
    history                     \* what each finished run gave its caller

env == <<srcCatalog, tgtCatalog, srcTable, tgtInitial, history>>

ghost == <<commits, fetched, executed, returned>>

locals == <<l_source_columns, l_target_columns, insert_query_template,
            l_target_row_count, l_max_update_date>>

vars == <<srcCatalog, tgtCatalog, srcTable, tgtTable, tgtTxn, tgtAtStart, tgtInitial,
          run, pc,
          l_connection_source, l_connection_target, l_source_columns,
          l_target_columns, insert_query_template, l_target_row_count,
          l_max_update_date, srcQuery, srcResult, rows, error, raised, commits,
          fetched, executed, returned, history>>

NoTemplate == [columns |-> <<>>, placeholders |-> 0]

NoQuery == [issued |-> FALSE, columns |-> <<>>, predicate |-> NoPredicate]

\* main.py:119-120 and the names not bound yet
Entry ==
    /\ pc = "connect_source"
    /\ l_connection_source = "None"
    /\ l_connection_target = "None"
    /\ l_source_columns = <<>>
    /\ l_target_columns = <<>>
    /\ insert_query_template = NoTemplate
    /\ l_target_row_count = -1
    /\ l_max_update_date = NULL
    /\ srcQuery = NoQuery
    /\ srcResult = <<>>
    /\ rows = <<>>
    /\ error = NoError
    /\ raised = NoError
    /\ commits = <<>>
    /\ fetched = 0
    /\ executed = 0
    /\ returned = NULL
    /\ tgtTxn = <<>>

Init ==
    /\ srcCatalog \in Catalogs
    /\ tgtCatalog \in Catalogs
    /\ srcTable \in SourceTables(srcCatalog)
    /\ tgtTable \in TargetTables(tgtCatalog)
    /\ tgtAtStart = tgtTable
    /\ tgtInitial = tgtTable
    /\ run = 1
    /\ history = <<>>
    /\ Entry

(***************************************************************************)
(* The steps of p_move_data_for_table, main.py:118-169.                    *)
(***************************************************************************)
\* an exception leaves the try block: control goes to the except clause
Raise(e) ==
    /\ error' = e
    /\ raised' = e
    /\ pc' = "except"

\* p_read_config and psycopg2.connect, main.py:22-31 and :42-56 / :66-80
ConnectOutcomes == {"open", "ConfigError", "ConnectionError"}

\* main.py:123
ConnectSource ==
    /\ pc = "connect_source"
    /\ \E outcome \in ConnectOutcomes :
          \/ /\ outcome = "open"
             /\ l_connection_source' = "open"
             /\ pc' = "get_source_definition"
             /\ UNCHANGED <<error, raised>>
          \/ /\ outcome # "open"
             /\ Raise(outcome)
             /\ UNCHANGED l_connection_source
    /\ UNCHANGED <<env, tgtTable, tgtTxn, tgtAtStart, run, l_connection_target, locals,
                   srcQuery, srcResult, rows, ghost>>

\* main.py:124-125, p_get_table_definition on the source
GetSourceDefinition ==
    /\ pc = "get_source_definition"
    /\ \/ /\ l_source_columns' = ColumnNames(srcCatalog)
          /\ pc' = "connect_target"
          /\ UNCHANGED <<error, raised>>
       \/ /\ Raise("QueryError")
          /\ UNCHANGED l_source_columns
    /\ UNCHANGED <<env, tgtTable, tgtTxn, tgtAtStart, run, l_connection_source,
                   l_connection_target, l_target_columns, insert_query_template,
                   l_target_row_count, l_max_update_date, srcQuery, srcResult, rows,
                   ghost>>

\* main.py:128
ConnectTarget ==
    /\ pc = "connect_target"
    /\ \E outcome \in ConnectOutcomes :
          \/ /\ outcome = "open"
             /\ l_connection_target' = "open"
             /\ pc' = "get_target_definition"
             /\ UNCHANGED <<error, raised>>
          \/ /\ outcome # "open"
             /\ Raise(outcome)
             /\ UNCHANGED l_connection_target
    /\ UNCHANGED <<env, tgtTable, tgtTxn, tgtAtStart, run, l_connection_source, locals,
                   srcQuery, srcResult, rows, ghost>>

\* main.py:129-130, p_get_table_definition on the target
GetTargetDefinition ==
    /\ pc = "get_target_definition"
    /\ \/ /\ l_target_columns' = ColumnNames(tgtCatalog)
          /\ pc' = "build_insert"
          /\ UNCHANGED <<error, raised>>
       \/ /\ Raise("QueryError")
          /\ UNCHANGED l_target_columns
    /\ UNCHANGED <<env, tgtTable, tgtTxn, tgtAtStart, run, l_connection_source,
                   l_connection_target, l_source_columns, insert_query_template,
                   l_target_row_count, l_max_update_date, srcQuery, srcResult, rows,
                   ghost>>

\* main.py:133-134: the column list and the placeholders of the INSERT
InsertTemplate(source_columns, target_columns) ==
    [columns |-> source_columns, placeholders |-> Len(source_columns)]

BuildInsertTemplate ==
    /\ pc = "build_insert"
    /\ insert_query_template' = InsertTemplate(l_source_columns, l_target_columns)
    /\ pc' = "count"
    /\ UNCHANGED <<env, tgtTable, tgtTxn, tgtAtStart, run, l_connection_source,
                   l_connection_target, l_source_columns, l_target_columns,
                   l_target_row_count, l_max_update_date, srcQuery, srcResult, rows,
                   error, raised, ghost>>

\* main.py:136-141: the cursors, SELECT COUNT(*) on the target, the branch
CountTarget ==
    /\ pc = "count"
    /\ \/ /\ tgtCatalog # <<>>
          /\ l_target_row_count' = CountRows(tgtTable)
          /\ pc' = IF CountRows(tgtTable) = 0 THEN "full_query" ELSE "watermark"
          /\ UNCHANGED <<error, raised>>
       \/ /\ Raise("QueryError")
          /\ UNCHANGED l_target_row_count
    /\ UNCHANGED <<env, tgtTable, tgtTxn, tgtAtStart, run, l_connection_source,
                   l_connection_target, l_source_columns, l_target_columns,
                   insert_query_template, l_max_update_date, srcQuery, srcResult, rows,
                   ghost>>

\* the source cursor executes a SELECT: the statement is sent, then fails or yields
Execute(columns, predicate) ==
    /\ srcQuery' = [issued |-> TRUE, columns |-> columns, predicate |-> predicate]
    /\ \/ /\ ~SelectFails(srcCatalog, columns, predicate)
          /\ srcResult' = SelectRows(srcTable, columns, predicate)
          /\ pc' = "fetch"
          /\ UNCHANGED <<error, raised>>
       \/ /\ Raise("QueryError")
          /\ UNCHANGED srcResult

\* main.py:143-144: the full load's SELECT
FullQuery ==
    /\ pc = "full_query"
    /\ Execute(l_target_columns, NoPredicate)
    /\ UNCHANGED <<env, tgtTable, tgtTxn, tgtAtStart, run, l_connection_source,
                   l_connection_target, locals, rows, ghost>>

\* main.py:147-149: SELECT MAX(updated_date) on the target
ReadWatermark ==
    /\ pc = "watermark"
    /\ \/ /\ ColDate \in TableColumns(tgtCatalog)
          /\ l_max_update_date' = MaxUpdatedDate(tgtTable)
          /\ pc' = "delta_query"
          /\ UNCHANGED <<error, raised>>
       \/ /\ Raise("QueryError")
          /\ UNCHANGED l_max_update_date
    /\ UNCHANGED <<env, tgtTable, tgtTxn, tgtAtStart, run, l_connection_source,
                   l_connection_target, l_source_columns, l_target_columns,
                   insert_query_template, l_target_row_count, srcQuery, srcResult, rows,
                   ghost>>

\* main.py:150-152: the delta load's SELECT
DeltaQuery ==
    /\ pc = "delta_query"
    /\ Execute(l_target_columns, FormatWatermark(l_max_update_date))
    /\ UNCHANGED <<env, tgtTable, tgtTxn, tgtAtStart, run, l_connection_source,
                   l_connection_target, locals, rows, ghost>>

\* the loop without the break on an empty batch
FetchManyNoBreak ==
    /\ pc = "fetch"
    /\ rows' = fetchmany(srcResult, BatchSize)
    /\ srcResult' = Drop(srcResult, Len(rows'))
    /\ fetched' = fetched + Len(rows')
    /\ pc' = "insert"
    /\ UNCHANGED <<env, tgtTable, tgtTxn, tgtAtStart, run, l_connection_source,
                   l_connection_target, locals, srcQuery, error, raised, commits,
                   executed, returned>>

\* main.py:154-158: fetchmany, and the break on an empty batch
FetchMany ==
    /\ pc = "fetch"
    /\ rows' = fetchmany(srcResult, BatchSize)
    /\ srcResult' = Drop(srcResult, Len(rows'))
    /\ fetched' = fetched + Len(rows')
    /\ pc' = IF rows' = <<>> THEN "close_source" ELSE "insert"
    /\ UNCHANGED <<env, tgtTable, tgtTxn, tgtAtStart, run, l_connection_source,
                   l_connection_target, locals, srcQuery, error, raised, commits,
                   executed, returned>>

\* executemany with the commit moved out of the loop: the next fetch follows at once
ExecuteManyCommitDeferred ==
    /\ pc = "insert"
    /\ \/ /\ \A i \in 1..Len(rows) : ~InsertFails(tgtCatalog, insert_query_template, rows[i])
          /\ tgtTxn' = tgtTxn \o StoredRows(tgtCatalog, insert_query_template, rows)
          /\ pc' = "fetch"
          /\ UNCHANGED <<error, raised>>
       \/ \E n \in 0..(Len(rows) - 1) :
             /\ \A i \in 1..n : ~InsertFails(tgtCatalog, insert_query_template, rows[i])
             /\ tgtTxn' = tgtTxn \o StoredRows(tgtCatalog, insert_query_template, Take(rows, n))
             /\ Raise("TransferError")
    /\ executed' = executed + 1
    /\ UNCHANGED <<env, tgtTable, tgtAtStart, run, l_connection_source,
                   l_connection_target, locals, srcQuery, srcResult, rows, commits,
                   fetched, returned>>

\* main.py:161: executemany runs the INSERT once per row, in the open transaction;
\* a failure leaves the rows before the failing one inserted and not committed
ExecuteMany ==
    /\ pc = "insert"
    /\ \/ /\ \A i \in 1..Len(rows) : ~InsertFails(tgtCatalog, insert_query_template, rows[i])
          /\ tgtTxn' = tgtTxn \o StoredRows(tgtCatalog, insert_query_template, rows)
          /\ pc' = "commit"
          /\ UNCHANGED <<error, raised>>
       \/ \E n \in 0..(Len(rows) - 1) :
             /\ \A i \in 1..n : ~InsertFails(tgtCatalog, insert_query_template, rows[i])
             /\ tgtTxn' = tgtTxn \o StoredRows(tgtCatalog, insert_query_template, Take(rows, n))
             /\ Raise("TransferError")
    /\ executed' = executed + 1
    /\ UNCHANGED <<env, tgtTable, tgtAtStart, run, l_connection_source,
                   l_connection_target, locals, srcQuery, srcResult, rows, commits,
                   fetched, returned>>

\* a commit that leaves the batch in place of the rows the target held
CommitReplacing ==
    /\ pc = "commit"
    /\ \/ /\ tgtTable' = tgtTxn
          /\ tgtTxn' = <<>>
          /\ commits' = Append(commits, Len(tgtTxn))
          /\ pc' = "fetch"
          /\ UNCHANGED <<error, raised>>
       \/ /\ Raise("CommitError")
          /\ UNCHANGED <<tgtTable, tgtTxn, commits>>
    /\ UNCHANGED <<env, tgtAtStart, run, l_connection_source, l_connection_target,
                   locals, srcQuery, srcResult, rows, fetched, executed,
                   returned>>

\* main.py:162
Commit ==
    /\ pc = "commit"
    /\ \/ /\ tgtTable' = tgtTable \o tgtTxn
          /\ tgtTxn' = <<>>
          /\ commits' = Append(commits, Len(tgtTxn))
          /\ pc' = "fetch"
          /\ UNCHANGED <<error, raised>>
       \/ /\ Raise("CommitError")
          /\ UNCHANGED <<tgtTable, tgtTxn, commits>>
    /\ UNCHANGED <<env, tgtAtStart, run, l_connection_source, l_connection_target,
                   locals, srcQuery, srcResult, rows, fetched, executed,
                   returned>>

\* the closes at the end of the try block instead of a finally clause
ExceptWithoutFinally ==
    /\ pc = "except"
    /\ pc' = "done"
    /\ UNCHANGED <<env, tgtTable, tgtTxn, tgtAtStart, run, l_connection_source,
                   l_connection_target, locals, srcQuery, srcResult, rows, error,
                   raised, ghost>>

\* an except clause that starts the work again instead of raising
ExceptRetries ==
    /\ pc = "except"
    /\ pc' = "connect_source"
    /\ UNCHANGED <<env, tgtTable, tgtTxn, tgtAtStart, run, l_connection_source,
                   l_connection_target, locals, srcQuery, srcResult, rows, error,
                   raised, ghost>>

\* main.py:163-166: log, print, raise the same exception again
Except ==
    /\ pc = "except"
    /\ pc' = "close_source"
    /\ UNCHANGED <<env, tgtTable, tgtTxn, tgtAtStart, run, l_connection_source,
                   l_connection_target, locals, srcQuery, srcResult, rows, error,
                   raised, ghost>>

\* main.py:168: l_connection_source.close(); on None an AttributeError leaves
\* the finally clause and replaces the exception in flight
CloseSource ==
    /\ pc = "close_source"
    /\ \/ /\ l_connection_source # "None"
          /\ l_connection_source' = "closed"
          /\ pc' = "close_target"
          /\ UNCHANGED error
       \/ /\ l_connection_source = "None"
          /\ error' = "AttributeError"
          /\ pc' = "done"
          /\ UNCHANGED l_connection_source
    /\ UNCHANGED <<env, tgtTable, tgtTxn, tgtAtStart, run, l_connection_target, locals,
                   srcQuery, srcResult, rows, raised, ghost>>

\* main.py:118-169 has no return statement: the call evaluates to None
ReturnValue == NULL

\* main.py:169: l_connection_target.close() discards the open transaction; then
\* the exception in flight propagates, or the function returns
CloseTarget ==
    /\ pc = "close_target"
    /\ \/ /\ l_connection_target # "None"
          /\ l_connection_target' = "closed"
          /\ tgtTxn' = <<>>
          /\ returned' = IF error = NoError THEN ReturnValue ELSE returned
          /\ UNCHANGED error
       \/ /\ l_connection_target = "None"
          /\ error' = "AttributeError"
          /\ UNCHANGED <<l_connection_target, tgtTxn, returned>>
    /\ pc' = "done"
    /\ UNCHANGED <<env, tgtTable, tgtAtStart, run, l_connection_source, locals,
                   srcQuery, srcResult, rows, raised, commits, fetched, executed>>

\* main.py:118-169
p_move_data_for_table ==
    \/ ConnectSource
    \/ GetSourceDefinition
    \/ ConnectTarget
    \/ GetTargetDefinition
    \/ BuildInsertTemplate
    \/ CountTarget
    \/ FullQuery
    \/ ReadWatermark
    \/ DeltaQuery
    \/ FetchMany
    \/ ExecuteMany
    \/ Commit
    \/ Except
    \/ CloseSource
    \/ CloseTarget

\* main.py:175-176 run again: the caller starts the next run on the same databases
NextRun ==
    /\ pc = "done"
    /\ run < MaxRuns
    /\ run' = run + 1
    /\ tgtAtStart' = tgtTable
    /\ pc' = "connect_source"
    /\ l_connection_source' = "None"
    /\ l_connection_target' = "None"
    /\ l_source_columns' = <<>>
    /\ l_target_columns' = <<>>
    /\ insert_query_template' = NoTemplate
    /\ l_target_row_count' = -1
    /\ l_max_update_date' = NULL
    /\ srcQuery' = NoQuery
    /\ srcResult' = <<>>
    /\ rows' = <<>>
    /\ error' = NoError
    /\ raised' = NoError
    /\ commits' = <<>>
    /\ fetched' = 0
    /\ executed' = 0
    /\ returned' = NULL
    /\ history' = Append(history, error)
    /\ UNCHANGED <<srcCatalog, tgtCatalog, srcTable, tgtInitial, tgtTable, tgtTxn>>

Next == p_move_data_for_table \/ NextRun

Spec == Init /\ [][Next]_vars

\* the run is one sequential thread: a statement that can be executed is executed
FairSpec == Spec /\ WF_vars(Next)

(***************************************************************************)
(* The claims.                                                             *)
(***************************************************************************)
\* the run has returned to its caller without an exception
Succeeded == pc = "done" /\ error = NoError

\* a source row as the target's column set sees it
Project(row, columns) == [c \in columns |-> row[c]]

\* the source rows the planned load is to transfer, under the target's columns
Expected(predicate) ==
    LET Hit(r) == Matches(r, predicate)
        hits == SelectSeq(srcTable, Hit)
    IN  [i \in 1..Len(hits) |-> Project(hits[i], TableColumns(tgtCatalog))]

\* C1: a run that found the target empty and in which no step failed sent a
\* SELECT without a watermark predicate, and the target then holds every
\* source row exactly once, whatever its updated_date.
C1_FullLoad ==
    (Succeeded /\ l_target_row_count = 0) =>
        /\ srcQuery.issued
        /\ srcQuery.predicate = NoPredicate
        /\ tgtTable = Expected(NoPredicate)

\* C1 where both catalogs list the columns in the same order
C1_FullLoadSameOrder ==
    (Succeeded /\ l_target_row_count = 0 /\ l_source_columns = l_target_columns) =>
        /\ srcQuery.issued
        /\ srcQuery.predicate = NoPredicate
        /\ tgtTable = Expected(NoPredicate)

\* C2: a run that found the target non-empty with watermark W and in which no
\* step failed inserted exactly the source rows with updated_date > W; and a
\* run right after a successful run inserts nothing.
C2_DeltaLoad ==
    /\ (Succeeded /\ l_target_row_count > 0 /\ MaxUpdatedDate(tgtAtStart) # NULL) =>
          tgtTable = tgtAtStart \o Expected(ToString(MaxUpdatedDate(tgtAtStart)[1]))
    /\ (pc = "done" /\ history # <<>> /\ history[Len(history)] = NoError) =>
          tgtTable = tgtAtStart

\* C2 where both catalogs list the columns in the same order
C2_DeltaLoadSameOrder ==
    (ColumnNames(srcCatalog) = ColumnNames(tgtCatalog)) => C2_DeltaLoad

\* C3: when both catalogs define the same set of columns, every value of a
\* transferred row is stored in the target column named as the source column
\* it was read from (the k-th value of a fetched row was read from the source
\* column l_target_columns[k]).
C3_ColumnOrderFidelity ==
    (pc = "commit" /\ Range(l_source_columns) = Range(l_target_columns)) =>
        \A i \in 1..Len(rows) : \A k \in 1..Len(l_target_columns) :
            tgtTxn[i][l_target_columns[k]] = rows[i][k]

\* C4: the INSERT names the target's column list, the SELECT projects that
\* same list in that order, and the INSERT has as many placeholders as a
\* fetched row has values, also when the catalogs list different column sets.
C4_InsertUsesTargetColumns ==
    /\ (pc \notin {"connect_source", "get_source_definition", "connect_target",
                   "get_target_definition", "build_insert"} /\ l_target_columns # <<>>) =>
          insert_query_template.columns = l_target_columns
    /\ srcQuery.issued => srcQuery.columns = insert_query_template.columns
    /\ pc = "insert" =>
          \A i \in 1..Len(rows) : Len(rows[i]) = insert_query_template.placeholders

\* C5: when the run has returned or raised, no connection it acquired is open.
C5_ConnectionsClosed ==
    pc = "done" => (l_connection_source # "open" /\ l_connection_target # "open")

\* the target connect failed after the source was acquired; the source was closed
C5_Witness ==
    /\ pc = "done"
    /\ raised = "ConnectionError"
    /\ l_connection_source = "closed"
    /\ l_connection_target = "None"

\* C6: when a step failed, the caller receives the error that step raised.
C6_OriginatingError ==
    (pc = "done" /\ raised # NoError) => error = raised

\* the handling of a failure: the except clause, the finally clause, the return
Failing == pc \in {"except", "close_source", "close_target", "done"} /\ raised # NoError

\* C7: when the insert of batch k > 1 failed, the target holds its rows of the
\* start and the source rows of batches 1..k-1 and no others, nothing was
\* fetched, inserted or committed after the failure, and the caller gets an error.
C7_MidStreamFailure ==
    (Failing /\ raised = "TransferError" /\ Len(commits) >= 1) =>
        /\ tgtTable = tgtAtStart \o Take(Expected(srcQuery.predicate), SumSeq(commits))
        /\ fetched = SumSeq(commits) + Len(rows)
        /\ executed = Len(commits) + 1
        /\ Len(tgtTxn) < Len(rows)
        /\ error # NoError

\* C7 where both catalogs list the columns in the same order
C7_MidStreamFailureSameOrder ==
    (ColumnNames(srcCatalog) = ColumnNames(tgtCatalog)) => C7_MidStreamFailure

CeilDiv(n, d) == (n + d - 1) \div d

\* the number of rows of the result of the SELECT the run sent
ResultSize == Len(SelectRows(srcTable, srcQuery.columns, srcQuery.predicate))

\* C8: no batch has more than BatchSize rows, every commit is that of one
\* non-empty batch, and a run without failure on a result of N rows made
\* ceil(N/BatchSize) commits, all of BatchSize rows but the last, which has the
\* rest; for N = 0 it made no insert and no commit.
C8_BatchCommits ==
    /\ Len(rows) <= BatchSize
    /\ \A j \in 1..Len(commits) : commits[j] >= 1 /\ commits[j] <= BatchSize
    /\ Succeeded =>
          LET N == ResultSize
              n == CeilDiv(N, BatchSize)
          IN  /\ Len(commits) = n
              /\ executed = n
              /\ \A j \in 1..(n - 1) : commits[j] = BatchSize
              /\ n > 0 => commits[n] = N - BatchSize * (n - 1)
              /\ N = 0 => (commits = <<>> /\ executed = 0 /\ tgtTable = tgtAtStart)

\* two full batches and a partial one, as 2500 rows are 1000, 1000 and 500
C8_Witness ==
    /\ Succeeded
    /\ Len(commits) = 3
    /\ commits[1] = BatchSize
    /\ commits[2] = BatchSize
    /\ commits[3] < BatchSize

\* C9: at most one batch is fetched and not committed, and when the next batch
\* is fetched every batch fetched before is committed in the target.
C9_CommitBeforeNextFetch ==
    /\ fetched - SumSeq(commits) <= BatchSize
    /\ pc = "fetch" =>
          /\ fetched = SumSeq(commits)
          /\ tgtTxn = <<>>
          /\ Len(tgtTable) = Len(tgtAtStart) + fetched

\* the second fetch is due, the first batch is committed
C9_Witness ==
    /\ pc = "fetch"
    /\ Len(commits) = 1
    /\ srcResult # <<>>
    /\ Len(tgtTable) = Len(tgtAtStart) + BatchSize

\* C10: when the target is non-empty and all its updated_date are null, the
\* run sends no SELECT whose predicate is made from the null watermark, and it
\* does not end as a successful delta load that transferred nothing.
C10_NullWatermark ==
    (l_target_row_count > 0 /\ MaxUpdatedDate(tgtAtStart) = NULL) =>
        /\ ~(srcQuery.issued /\ srcQuery.predicate # NoPredicate)
        /\ ~(Succeeded /\ srcQuery.predicate # NoPredicate /\ commits = <<>>)

\* the statements after the INSERT template is built, up to the end of the loop
AfterTemplate ==
    pc \in {"count", "watermark", "full_query", "delta_query", "fetch", "insert", "commit"}

\* C11: when either table definition came back empty, the run fails before it
\* builds the INSERT template, before any count, watermark or source query and
\* before any write to the target.
C11_EmptyDefinitionIsError ==
    /\ AfterTemplate => (l_source_columns # <<>> /\ l_target_columns # <<>>)
    /\ (srcCatalog = <<>> \/ tgtCatalog = <<>>) =>
          /\ l_target_row_count = -1
          /\ ~srcQuery.issued
          /\ tgtTxn = <<>>
          /\ tgtTable = tgtAtStart

\* every source row is in the target, under the target's columns
AllSourceRowsInTarget ==
    \A i \in 1..Len(srcTable) : \E j \in 1..Len(tgtTable) :
        tgtTable[j] = Project(srcTable[i], TableColumns(tgtCatalog))

\* C12: on a target that was empty before the first run, after runs that may
\* have failed mid-stream, a run that completes without failure leaves every
\* source row in the target at least once.  Stated for catalogs that list the
\* columns in the same order, where every value is stored under its own name.
C12_AtLeastOnce ==
    (Succeeded /\ tgtInitial = <<>> /\ ColumnNames(srcCatalog) = ColumnNames(tgtCatalog)) =>
        AllSourceRowsInTarget

\* C12 for a first run: nothing was loaded before it
C12_FirstRun ==
    (Succeeded /\ tgtInitial = <<>> /\ run = 1
        /\ ColumnNames(srcCatalog) = ColumnNames(tgtCatalog)) => AllSourceRowsInTarget

\* the number of rows the run has inserted and committed
RowsCommitted == Len(tgtTable) - Len(tgtAtStart)

\* C13 as stated: a run that completes without failure returns the number of
\* rows it inserted and committed.
C13_ReportsRowsTransferred ==
    Succeeded => returned = <<RowsCommitted>>

\* C13 amended: a run that completes without failure returns None, no count;
\* the rows it inserted and committed are as many as the source result has,
\* which is the sum of its committed batches.
C13_ReturnsNone ==
    Succeeded =>
        /\ returned = NULL
        /\ RowsCommitted = SumSeq(commits)
        /\ RowsCommitted = ResultSize

\* a successful run that transferred more than one batch
C13_Witness ==
    /\ Succeeded
    /\ returned = NULL
    /\ RowsCommitted > BatchSize

\* the phase of the run, spec section 4.5, read off the statement it is at
Phase ==
    IF pc = "done" THEN (IF error = NoError THEN "DONE" ELSE "FAILED")
    ELSE IF pc \in {"except", "close_source", "close_target"} /\ raised # NoError
         THEN "FAILED"
    ELSE IF pc = "connect_source" THEN "INIT"
    ELSE IF pc \in {"get_source_definition", "connect_target"} THEN "CONNECTED_SOURCE"
    ELSE IF pc \in {"get_target_definition", "build_insert", "count", "watermark",
                    "full_query", "delta_query"} THEN "CONNECTED_BOTH"
    ELSE IF pc = "fetch" /\ executed = 0 THEN "PLANNED"
    ELSE "TRANSFERRING"

PhaseRank(ph) ==
    CASE ph = "INIT" -> 1
      [] ph = "CONNECTED_SOURCE" -> 2
      [] ph = "CONNECTED_BOTH" -> 3
      [] ph = "PLANNED" -> 4
      [] ph = "TRANSFERRING" -> 5
      [] OTHER -> 6

\* a step of one run keeps the phase, moves to the next one, or fails
PhaseStep ==
    (run' = run) =>
        /\ \/ Phase' = Phase
           \/ PhaseRank(Phase) <= 5 /\ Phase' = "FAILED"
           \/ Phase' # "FAILED" /\ PhaseRank(Phase') = PhaseRank(Phase) + 1
        /\ (l_connection_target = "None" /\ l_connection_target' = "open") =>
              (Phase = "CONNECTED_SOURCE" /\ l_connection_source = "open"
                 /\ l_source_columns = ColumnNames(srcCatalog))

\* C14: a run goes through INIT, CONNECTED_SOURCE, CONNECTED_BOTH, PLANNED,
\* TRANSFERRING in that order, one at a time, never back, and ends in DONE or
\* FAILED, which it never leaves; the target connection is opened only after
\* the source was connected and introspected; no row is written to the target
\* before the count was read and the source SELECT sent.
C14_PhaseOrder ==
    /\ []((tgtTxn # <<>> \/ tgtTable # tgtAtStart) =>
            (l_target_row_count >= 0 /\ srcQuery.issued /\ PhaseRank(Phase) >= 5))
    /\ [][PhaseStep]_vars

\* a run that went through every phase and ended in DONE
C14_Witness ==
    /\ Phase = "DONE"
    /\ commits # <<>>
    /\ l_connection_target = "closed"

\* C15: at every point the committed content of the target is its content at
\* the start of the run followed by the source rows of the first k whole
\* batches of the result, for some k; once the run has ended nothing inserted
\* and not committed is left.
C15_WholeBatchesDurable ==
    /\ \/ tgtTable = tgtAtStart
       \/ \E k \in 1..Len(commits) :
             tgtTable = tgtAtStart \o Take(Expected(srcQuery.predicate), k * BatchSize)
    /\ pc = "done" =>
          (tgtTxn = <<>> /\ RowsCommitted = SumSeq(commits))

\* C15 where both catalogs list the columns in the same order
C15_WholeBatchesDurableSameOrder ==
    (ColumnNames(srcCatalog) = ColumnNames(tgtCatalog)) => C15_WholeBatchesDurable

\* the fetch that finds the result exhausted ends the loop and does nothing else
EmptyFetchStops ==
    (pc = "fetch" /\ srcResult = <<>>) =>
        /\ pc' = "close_source"
        /\ rows' = <<>>
        /\ UNCHANGED <<commits, executed, tgtTable, tgtTxn, error>>

\* C16: under fair scheduling every run reaches its end (DONE or FAILED); the
\* loop stops at the first fetch that returns an empty batch, and no insert
\* and no commit is made for an empty batch.
C16_LoopTerminates ==
    /\ [](pc \in {"insert", "commit"} => rows # <<>>)
    /\ [][EmptyFetchStops]_vars
    /\ (pc # "done") ~> (pc = "done")

\* a run whose loop ended at the empty fetch after three batches
C16_Witness ==
    /\ Succeeded
    /\ rows = <<>>
    /\ Len(commits) = 3
    /\ executed = 3

\* the rows the run has inserted, committed or not
InsertedRows == Drop(tgtTable, Len(tgtAtStart)) \o tgtTxn

NotBelow(table, before) ==
    MaxUpdatedDate(before) # NULL =>
        /\ MaxUpdatedDate(table) # NULL
        /\ MaxUpdatedDate(table)[1] >= MaxUpdatedDate(before)[1]

\* C17: a non-null watermark of the target never decreases, within a run and
\* from run to run; every row a delta run inserts has an updated_date above
\* the watermark the run read; the watermark is the one read before the first
\* insert, also after commits of the run have moved the target's maximum.
C17_WatermarkMonotone ==
    /\ NotBelow(tgtTable, tgtAtStart)
    /\ NotBelow(tgtAtStart, tgtInitial)
    /\ (l_target_row_count > 0 /\ l_max_update_date # NULL) =>
          \A i \in 1..Len(InsertedRows) :
              /\ InsertedRows[i][ColDate] # NULL
              /\ InsertedRows[i][ColDate][1] > l_max_update_date[1]
    /\ (pc \in {"delta_query", "fetch", "insert", "commit"} /\ l_target_row_count > 0) =>
          l_max_update_date = MaxUpdatedDate(tgtAtStart)

\* C17 where both catalogs list the columns in the same order
C17_WatermarkMonotoneSameOrder ==
    (ColumnNames(srcCatalog) = ColumnNames(tgtCatalog)) => C17_WatermarkMonotone

\* a step changes neither database but by appending rows to the target table,
\* and sends the source at most one SELECT per run
FrameStep ==
    /\ srcTable' = srcTable
    /\ srcCatalog' = srcCatalog
    /\ tgtCatalog' = tgtCatalog
    /\ Len(tgtTable') >= Len(tgtTable)
    /\ Take(tgtTable', Len(tgtTable)) = tgtTable
    /\ (srcQuery.issued /\ run' = run) => srcQuery' = srcQuery

\* C18: no step of a run, successful or failed, changes the source table or
\* either catalog; the source gets one SELECT per run at most; every change of
\* the target table appends rows: no row it held is changed or removed.
C18_Frame == [][FrameStep]_vars

\* a run has added two batches to a target that held a row
C18_Witness ==
    /\ pc = "done"
    /\ tgtAtStart # <<>>
    /\ Len(commits) = 2
    /\ Take(tgtTable, Len(tgtAtStart)) = tgtAtStart

====
